---------------------------- MODULE Spec2Model ----------------------------
(***************************************************************************)
(* RecoFilms (aleks070/movie_recommender_app): the five recommendation     *)
(* strategies of src/src/backend.py, the two history sinks of              *)
(* src/src/sauvegarde.py and the request handlers of src/app.py.           *)
(*                                                                         *)
(* Representation.                                                         *)
(*  - A Python str is a sequence of characters; a character is a one-      *)
(*    character string, or the name of its code point ("U+1F464").         *)
(*  - A rating is an integer number of half stars (the slider of app.py    *)
(*    steps by 0.5): 9 stands for 4.5.                                     *)
(*  - A float score is a fixed-point integer counting 1/Scale, or NaN:     *)
(*    [nan |-> BOOLEAN, v |-> Int].                                        *)
(*  - A DataFrame is a sequence of rows (records), in row order.           *)
(***************************************************************************)
EXTENDS Integers, Sequences, FiniteSets, TLC

VARIABLES
    df,             \* the loaded dataset (app.py:109), fixed for a run
    selected_titles,\* the 3 titles of the profile under test (backend calls)
    ratings,        \* the 3 ratings of the profile under test (backend calls)
    top_n,          \* the top_n argument of the backend call
    algo_name,      \* the algo_name argument of the backend call
    pc,             \* "ready": inputs drawn, "done": a backend function returned
    result,         \* what the backend call under test returned or raised
    history_csv,    \* data/history.csv: [exists, rows]
    history_txt,    \* data/history.txt: [exists, text]
    written,        \* history variable: <<user_name, method>> of each append since the last reset
    page            \* what the last script run of app.py rendered

vars == <<df, selected_titles, ratings, top_n, algo_name, pc, result,
          history_csv, history_txt, written, page>>

(***************************************************************************)
(* Bounds of the model.                                                    *)
(***************************************************************************)
\* fixed-point resolution of a float score: v stands for v / Scale
Scale == 100
\* top_n arguments tried are 1..MaxTopN and the default
MaxTopN == 1
\* sessions appended to the history logs between two resets
MaxSessions == 2

(***************************************************************************)
(* Program constants.                                                      *)
(***************************************************************************)
\* the slider's maximum, 5.0, in half stars
MaxRating == 10
\* top_n: int = 5
DefaultTopN == 5
\* "-" * 50
DelimiterLen == 50
\* user_line[2:]
UserSlice == 2
\* method_line[10:]
MethodSlice == 10

(***************************************************************************)
(* Characters and strings.                                                 *)
(***************************************************************************)
LF == "\n"
\* the characters str.strip() removes, among those of the model
Whitespace == {" ", LF}

\* the code points of the model in increasing order (str comparison, sorted())
Alphabet ==
    <<LF, " ", "-", ".", "0", "1", "2", "3", "4", "5", "6", "7", "8", "9", ":",
      "A", "B", "C", "D", "E", "F", "I", "K", "L", "M", "N", "R", "S", "U", "V",
      "a", "b", "c", "d", "e", "f", "g", "h", "i", "l", "m", "n", "o", "r", "s",
      "t", "u", "y", "|", "U+00E9", "U+2699", "U+2B50", "U+FE0F", "U+1F3AC",
      "U+1F464">>

Ord(c) == CHOOSE i \in 1..Len(Alphabet) : Alphabet[i] = c

RECURSIVE StrLess(_, _)
StrLess(a, b) ==
    IF b = <<>> THEN FALSE
    ELSE IF a = <<>> THEN TRUE
    ELSE IF Head(a) = Head(b) THEN StrLess(Tail(a), Tail(b))
    ELSE Ord(Head(a)) < Ord(Head(b))

Repeat(c, n) == [i \in 1..n |-> c]

StartsWith(s, prefix) ==
    /\ Len(s) >= Len(prefix)
    /\ SubSeq(s, 1, Len(prefix)) = prefix

\* s[k:]
SliceFrom(s, k) == SubSeq(s, k + 1, Len(s))

RECURSIVE LStrip(_)
LStrip(s) == IF s # <<>> /\ Head(s) \in Whitespace THEN LStrip(Tail(s)) ELSE s

RECURSIVE RStrip(_)
RStrip(s) ==
    IF s # <<>> /\ s[Len(s)] \in Whitespace THEN RStrip(SubSeq(s, 1, Len(s) - 1)) ELSE s

\* str.strip()
Strip(s) == RStrip(LStrip(s))

\* the pieces of s between the occurrences of sep among starts that do not
\* overlap, taken left to right; from is where the piece being cut starts
RECURSIVE SplitFrom(_, _, _, _)
SplitFrom(s, width, starts, from) ==
    LET found == {i \in starts : i >= from}
    IN  IF found = {} THEN <<SubSeq(s, from, Len(s))>>
        ELSE LET i == CHOOSE i \in found : \A j \in found : i <= j
             IN  <<SubSeq(s, from, i - 1)>> \o SplitFrom(s, width, starts, i + width)

\* s.split(sep)
Split(s, sep) ==
    SplitFrom(s, Len(sep),
              {i \in 1..(Len(s) - Len(sep) + 1) :
                  s[i] = sep[1] /\ SubSeq(s, i, i + Len(sep) - 1) = sep},
              1)

\* str.splitlines(): like split on the line feed, without a last empty line
SplitLines(s) ==
    LET parts == Split(s, <<LF>>)
    IN  IF parts[Len(parts)] = <<>> THEN SubSeq(parts, 1, Len(parts) - 1) ELSE parts

RECURSIVE Concat(_)
Concat(ss) == IF ss = <<>> THEN <<>> ELSE Head(ss) \o Concat(Tail(ss))

Digit(d) == <<Alphabet[d + Ord("0")]>>

RECURSIVE IntStr(_)
IntStr(n) == IF n < 10 THEN Digit(n) ELSE IntStr(n \div 10) \o Digit(n % 10)

\* str(float) of a rating: 9 half stars print as 4.5, 8 as 4.0
RatingStr(r) == IntStr(r \div 2) \o <<".">> \o Digit(5 * (r % 2))

\* float(text) of a rating printed by RatingStr, as read_csv parses the column
ParseRating(s) == CHOOSE r \in 0..MaxRating : RatingStr(r) = s

(***************************************************************************)
(* Numbers.                                                                *)
(***************************************************************************)
Min(a, b) == IF a <= b THEN a ELSE b

RECURSIVE SumFn(_)
SumFn(f) ==
    IF DOMAIN f = {} THEN 0
    ELSE LET k == CHOOSE k \in DOMAIN f : TRUE
         IN  f[k] + SumFn([j \in (DOMAIN f) \ {k} |-> f[j]])

Dot(a, b) == SumFn([k \in DOMAIN a |-> a[k] * b[k]])

\* the largest r in lo..hi with r * r <= n
RECURSIVE IsqrtIn(_, _, _)
IsqrtIn(n, lo, hi) ==
    IF lo >= hi THEN lo
    ELSE LET mid == (lo + hi + 1) \div 2
         IN  IF mid * mid <= n THEN IsqrtIn(n, mid, hi) ELSE IsqrtIn(n, lo, mid - 1)

\* sklearn's cosine of two vectors with entries >= 0, in fixed point, rounded
\* down; a zero vector is normalised by 1 and so has cosine 0 with every vector
Cosine(a, b) ==
    LET dot == Dot(a, b)
        na  == Dot(a, a)
        nb  == Dot(b, b)
    IN  IF na = 0 \/ nb = 0 THEN 0
        ELSE IsqrtIn(((Scale * dot) * (Scale * dot)) \div (na * nb), 0, Scale)

Value(v) == [nan |-> FALSE, v |-> v]
NaN == [nan |-> TRUE, v |-> 0]

\* a >= b on floats: false as soon as one side is NaN
Geq(a, b) == ~a.nan /\ ~b.nan /\ a.v >= b.v

\* str(round(x, 2)) of a float score: "nan", or the shortest decimal form
ScoreStr(x) ==
    IF x.nan THEN <<"n", "a", "n">>
    ELSE LET cents == (x.v * 100 + Scale \div 2) \div Scale
             frac  == cents % 100
         IN  IntStr(cents \div 100) \o <<".">> \o
             (IF frac % 10 = 0 THEN Digit(frac \div 10)
              ELSE Digit(frac \div 10) \o Digit(frac % 10))

(***************************************************************************)
(* Series and DataFrame operations.                                        *)
(***************************************************************************)
Range(s) == {s[i] : i \in DOMAIN s}

\* the strings of a set in increasing order (a sorted pandas index)
RECURSIVE SortedStrs(_)
SortedStrs(S) ==
    IF S = {} THEN <<>>
    ELSE LET m == CHOOSE m \in S : \A o \in S \ {m} : StrLess(m, o)
         IN  <<m>> \o SortedStrs(S \ {m})

\* sort_values(ascending=False) and sorted(reverse=True): descending, rows of
\* equal score in their original order, NaN last (na_position='last').  No
\* property below reads the order among rows of equal score.
RECURSIVE InsertDesc(_, _)
InsertDesc(sorted, e) ==
    IF sorted = <<>> THEN <<e>>
    ELSE IF Head(sorted).score.v >= e.score.v
         THEN <<Head(sorted)>> \o InsertDesc(Tail(sorted), e)
         ELSE <<e>> \o sorted

RECURSIVE SortNumbersDesc(_)
SortNumbersDesc(rows) ==
    IF rows = <<>> THEN <<>>
    ELSE InsertDesc(SortNumbersDesc(SubSeq(rows, 1, Len(rows) - 1)), rows[Len(rows)])

SortValuesDesc(rows) ==
    SortNumbersDesc(SelectSeq(rows, LAMBDA r : ~r.score.nan))
    \o SelectSeq(rows, LAMBDA r : r.score.nan)

\* head(n) and [:n]
Head_n(rows, n) == SubSeq(rows, 1, Min(n, Len(rows)))

\* drop_duplicates(subset='title'): the first row of each title
RECURSIVE DropDuplicates(_)
DropDuplicates(rows) ==
    IF rows = <<>> THEN <<>>
    ELSE LET init == SubSeq(rows, 1, Len(rows) - 1)
             last == rows[Len(rows)]
         IN  IF \E i \in DOMAIN init : init[i].title = last.title
             THEN DropDuplicates(init)
             ELSE DropDuplicates(init) \o <<last>>

\* df['title'].unique(): the titles in order of first appearance
UniqueTitles(d) ==
    LET firsts == DropDuplicates(d) IN [i \in DOMAIN firsts |-> firsts[i].title]

TitlesOf(d) == {d[i].title : i \in DOMAIN d}
UsersOf(d) == {d[i].userId : i \in DOMAIN d}
ProfileTitles(user_profile) == {user_profile[i].title : i \in DOMAIN user_profile}

\* pivot_table(index='userId', columns='title', values='rating').fillna(0):
\* the mean rating of the (user, title) rows, 0 where there is none
Pivot(d) ==
    [u \in UsersOf(d) |->
        [t \in TitlesOf(d) |->
            LET rs == SelectSeq(d, LAMBDA r : r.userId = u /\ r.title = t)
            IN  IF rs = <<>> THEN 0
                ELSE SumFn([i \in DOMAIN rs |-> rs[i].rating]) \div Len(rs)]]

\* a Series indexed by titles as rows, in index order
SeriesRows(scores) ==
    LET idx == SortedStrs(DOMAIN scores)
    IN  [i \in DOMAIN idx |-> [title |-> idx[i], score |-> scores[idx[i]]]]

(***************************************************************************)
(* src/src/utils.py                                                        *)
(***************************************************************************)
\* get_user_profile(titles, ratings, genres)
get_user_profile(titles, rs, genres) ==
    [i \in DOMAIN titles |-> [title |-> titles[i], rating |-> rs[i], genres |-> genres[i]]]

(***************************************************************************)
(* src/src/backend.py.  A call returns                                     *)
(*   [status, recs, fitted, query]:                                        *)
(* status "ok" with the returned rows recs, or the exception raised;       *)
(* fitted tells whether algo.fit ran; query is the genre vector compared   *)
(* with the catalogue by the content-based strategies (<<>> elsewhere).    *)
(***************************************************************************)
Returned(recs, fitted, query) ==
    [status |-> "ok", recs |-> recs, fitted |-> fitted, query |-> query]

Raised(exception, fitted) ==
    [status |-> exception, recs |-> <<>>, fitted |-> fitted, query |-> <<>>]

\* a variant of DropSeen that drops nothing
DropSeenMissing(rows, user_profile) == rows

\* scores.drop(labels=user_profile['title'], errors='ignore')
DropSeen(rows, user_profile) ==
    SelectSeq(rows, LAMBDA r : r.title \notin ProfileTitles(user_profile))

\* the running sum of similarity_df[movie] * rating over the first k rows of
\* the profile, as a Series indexed by title (empty before the first add)
RECURSIVE ItemScores(_, _, _)
ItemScores(pivot, user_profile, k) ==
    IF k = 0 THEN << >>
    ELSE LET prev    == ItemScores(pivot, user_profile, k - 1)
             movie   == user_profile[k].title
             rating  == user_profile[k].rating
             columns == IF DOMAIN pivot = {} THEN {}
                        ELSE DOMAIN pivot[CHOOSE u \in DOMAIN pivot : TRUE]
             column(t) == [u \in DOMAIN pivot |-> pivot[u][t]]
         IN  IF movie \in columns
             THEN [t \in columns |->
                      Cosine(column(movie), column(t)) * rating
                      + (IF t \in DOMAIN prev THEN prev[t] ELSE 0)]
             ELSE prev

get_item_user_recommendations(d, user_profile, n) ==
    LET pivot  == Pivot(d)
        sums   == ItemScores(pivot, user_profile, Len(user_profile))
        \* a rating counts half stars: halve the sum
        scores == [t \in DOMAIN sums |-> Value(sums[t] \div 2)]
        kept   == DropSeen(SeriesRows(scores), user_profile)
    IN  Returned(Head_n(SortValuesDesc(kept), n), FALSE, <<>>)

\* weighted_ratings / similarity_sums of one title: 0 / 0 is NaN
Divide(weighted, sums) ==
    IF sums = 0 THEN NaN ELSE Value((weighted * Scale) \div (2 * sums))

get_user_user_recommendations(d, user_profile, n) ==
    LET pivot   == Pivot(d)
        columns == TitlesOf(d)
        rated(t) == {i \in DOMAIN user_profile : user_profile[i].title = t}
        \* the profile's titles are titles of the dataset (app.py:119)
        user_vector == [t \in columns |->
                           IF rated(t) = {} THEN 0
                           ELSE user_profile[CHOOSE i \in rated(t) :
                                                \A j \in rated(t) : j <= i].rating]
        similar_users == [u \in DOMAIN pivot |-> Cosine(pivot[u], user_vector)]
        weighted_ratings ==
            [t \in columns |->
                SumFn([u \in DOMAIN pivot |-> pivot[u][t] * similar_users[u]])]
        similarity_sums ==
            [t \in columns |->
                SumFn([u \in DOMAIN pivot |->
                          (IF pivot[u][t] # 0 THEN 1 ELSE 0) * similar_users[u]])]
        normalized_scores ==
            IF DOMAIN pivot = {} THEN << >>
            ELSE [t \in columns |-> Divide(weighted_ratings[t], similarity_sums[t])]
        kept == DropSeen(SeriesRows(normalized_scores), user_profile)
    IN  Returned(Head_n(SortValuesDesc(kept), n), FALSE, <<>>)

SVD == <<"S", "V", "D">>
KNN == <<"K", "N", "N">>
NMF == <<"N", "M", "F">>

\* a variant of AlgorithmKnown without the else branch
AlgorithmAny(name) == TRUE

\* the if / elif / else on algo_name: TRUE when an algorithm is chosen
AlgorithmKnown(name) == name = SVD \/ name = KNN \/ name = NMF

\* unseen = [title for title in all_titles if title not in user_profile['title'].values]
Unseen(all_titles, user_profile) ==
    SelectSeq(all_titles, LAMBDA t : t \notin ProfileTitles(user_profile))

\* predict[t] is what algo.predict(new_user_id, t) does: it returns the
\* estimate predict[t], in half stars, or raises PredictionImpossible (-1).
\* The estimates are the library's, and any value is allowed here.
PredictionImpossible == -1

get_model_based_recommendations(d, user_profile, name, n, predict) ==
    IF ~AlgorithmKnown(name) THEN Raised("ValueError", FALSE)
    ELSE LET unseen == Unseen(UniqueTitles(d), user_profile)
             tried  == [i \in DOMAIN unseen |->
                           [title |-> unseen[i],
                            score |-> Value((predict[unseen[i]] * Scale) \div 2)]]
             predictions ==
                 SelectSeq(tried, LAMBDA r : predict[r.title] # PredictionImpossible)
         IN  Returned(Head_n(SortValuesDesc(predictions), n), TRUE, <<>>)

\* x.split('|')
GenresList(genres) == Split(genres, <<"|">>)

\* MultiLabelBinarizer().fit: classes_, the sorted labels of the catalogue
Classes(d) == SortedStrs(UNION {Range(GenresList(d[i].genres)) : i \in DOMAIN d})

\* mlb.transform of one list of labels: a label that is no class is ignored
Binarize(classes, labels) ==
    [k \in DOMAIN classes |-> IF classes[k] \in Range(labels) THEN 1 ELSE 0]

\* results[~results['title'].isin(user_profile['title'])]
NotSeen(rows, user_profile) ==
    SelectSeq(rows, LAMBDA r : r.title \notin ProfileTitles(user_profile))

\* a variant of UniqueRows that keeps every row
KeepDuplicates(rows) == rows

\* results.drop_duplicates(subset='title')
UniqueRows(rows) == DropDuplicates(rows)

\* the title and the cosine with query of every row of the catalogue, then the
\* shared tail of both content-based strategies: filter, deduplicate, sort, head
ContentResults(d, user_profile, query, n) ==
    LET classes == Classes(d)
        results == [i \in DOMAIN d |->
                       [title |-> d[i].title,
                        score |-> Value(Cosine(query,
                                     Binarize(classes, GenresList(d[i].genres))))]]
    IN  Head_n(SortValuesDesc(UniqueRows(NotSeen(results, user_profile))), n)

\* np.average(user_genres_matrix, axis=0, weights=...): the weighted sum of the
\* rows over the sum of the weights.  The cosine of a vector does not change
\* with a positive factor, so the numerators stand for the average.
get_content_based_recommendations(d, user_profile, n) ==
    LET classes == Classes(d)
        user_genres_matrix ==
            [i \in DOMAIN user_profile |->
                Binarize(classes, GenresList(user_profile[i].genres))]
        weights == [i \in DOMAIN user_profile |-> user_profile[i].rating]
        user_profile_vector ==
            [k \in DOMAIN classes |->
                SumFn([i \in DOMAIN user_profile |->
                          weights[i] * user_genres_matrix[i][k]])]
    IN  IF SumFn(weights) = 0
        THEN \* "Weights sum to zero, can't be normalized"
             Raised("ZeroDivisionError", FALSE)
        ELSE Returned(ContentResults(d, user_profile, user_profile_vector, n),
                      FALSE, user_profile_vector)

\* a variant of idxmax that keeps the last of the largest ratings
IdxMaxLast(user_profile) ==
    CHOOSE i \in DOMAIN user_profile :
        \A j \in DOMAIN user_profile :
            \/ user_profile[j].rating < user_profile[i].rating
            \/ (user_profile[j].rating = user_profile[i].rating /\ j <= i)

\* user_profile['rating'].idxmax(): the first row holding the largest rating
IdxMax(user_profile) ==
    CHOOSE i \in DOMAIN user_profile :
        \A j \in DOMAIN user_profile :
            \/ user_profile[j].rating < user_profile[i].rating
            \/ (user_profile[j].rating = user_profile[i].rating /\ j >= i)

get_content_based_on_best_rated(d, user_profile, n) ==
    LET best_row == user_profile[IdxMax(user_profile)]
        best_genres == GenresList(best_row.genres)
        best_genre_vector == Binarize(Classes(d), best_genres)
    IN  Returned(ContentResults(d, user_profile, best_genre_vector, n),
                 FALSE, best_genre_vector)

(***************************************************************************)
(* The datasets and the inputs tried.                                      *)
(***************************************************************************)
Row(u, t, r, g) == [userId |-> u, title |-> <<t>>, rating |-> r, genres |-> g]

\* genre strings: "a|c", "c", "c|d", "d", "a"
G_ac == <<"a", "|", "c">>
G_c  == <<"c">>
G_cd == <<"c", "|", "d">>
G_d  == <<"d">>
G_a  == <<"a">>

\* 4 films, 3 raters, every film rated by a rater of another film
DfDense ==
    << Row("u1", "A", 8, G_ac), Row("u1", "B", 6, G_c),  Row("u1", "D", 9, G_d),
       Row("u2", "A", 4, G_ac), Row("u2", "C", 10, G_cd), Row("u2", "D", 5, G_d),
       Row("u3", "B", 7, G_c),  Row("u3", "C", 8, G_cd) >>

\* 5 films; E is rated by u3 alone, who rated nothing else; D was rated 0.0
DfSparse ==
    << Row("u1", "A", 8, G_ac), Row("u2", "A", 6, G_ac), Row("u1", "B", 5, G_c),
       Row("u2", "C", 9, G_cd), Row("u1", "D", 0, G_d),  Row("u3", "E", 7, G_a),
       Row("u2", "B", 4, G_c) >>

Datasets == {DfDense, DfSparse}

\* the ratings tried for a film of the profile: 0.0, 2.0 and 4.5
RatingChoices == {0, 4, 9}

\* the estimates tried for algo.predict: 1.0 and 3.5
EstChoices == {2, 7}

\* what algo.predict may do on the films outside the profile
Predictions(d, profile) ==
    [TitlesOf(d) \ ProfileTitles(profile) -> EstChoices \cup {PredictionImpossible}]

Methods ==
    [ItemUser    |-> <<"I", "t", "e", "m", "-", "U", "s", "e", "r">>,
     UserUser    |-> <<"U", "s", "e", "r", "-", "U", "s", "e", "r">>,
     SVD         |-> SVD,
     KNN         |-> KNN,
     NMF         |-> NMF,
     Moyenne     |-> <<"M", "o", "y", "e", "n", "n", "e", " ", "d", "e", "s", " ",
                       "g", "e", "n", "r", "e", "s">>,
     FilmPrefere |-> <<"F", "i", "l", "m", " ", "p", "r", "U+00E9", "f", "U+00E9",
                       "r", "U+00E9">>]

\* algo_name arguments tried: the three algorithms and two other names
AlgoNames == {SVD, KNN, NMF, <<"s", "v", "d">>, Methods.ItemUser}

TopNs == (1..MaxTopN) \cup {DefaultTopN}

\* 3 films of the catalogue, as the three selectboxes of app.py offer them
TitleChoices(d) == [1..3 -> TitlesOf(d)]
Distinct(titles) == Cardinality(Range(titles)) = Len(titles)

\* genres = [df[df['title'] == title]['genres'].iloc[0] for title in selected_titles]
FirstGenres(d, titles) ==
    [i \in DOMAIN titles |->
        d[CHOOSE k \in DOMAIN d :
            /\ d[k].title = titles[i]
            /\ \A j \in 1..(k - 1) : d[j].title # titles[i]].genres]

Profile(d, titles, rs) == get_user_profile(titles, rs, FirstGenres(d, titles))

NoResult == [status |-> "none", recs |-> <<>>, fitted |-> FALSE, query |-> <<>>]
NoFile == [exists |-> FALSE, rows |-> <<>>]
NoText == [exists |-> FALSE, text |-> <<>>]
NoRequest == [user_name |-> <<>>, titles |-> <<>>, ratings |-> <<>>,
              main_method |-> "", sub_method |-> <<>>]
NoPage == [op |-> "load", request |-> NoRequest, status |-> "none", invoked |-> "none",
           recs |-> <<>>, sessions |-> <<>>]

(***************************************************************************)
(* SpecBackend: one call of a function of backend.py on inputs drawn by    *)
(* Init; the history files are not touched.                                *)
(***************************************************************************)
AppIdle ==
    /\ history_csv = NoFile
    /\ history_txt = NoText
    /\ written = <<>>
    /\ page = NoPage

InitBackend ==
    /\ df \in Datasets
    /\ selected_titles \in {t \in TitleChoices(df) : Distinct(t)}
    /\ ratings \in [1..3 -> RatingChoices]
    /\ top_n \in TopNs
    /\ algo_name = <<>>
    /\ pc = "ready"
    /\ result = NoResult
    /\ AppIdle

tested_profile == Profile(df, selected_titles, ratings)

Call(function, value) ==
    /\ pc = "ready"
    /\ pc' = function
    /\ result' = value
    /\ UNCHANGED <<df, selected_titles, ratings, top_n, history_csv, history_txt,
                   written, page>>

CallItemUser ==
    /\ Call("item_user", get_item_user_recommendations(df, tested_profile, top_n))
    /\ UNCHANGED algo_name

CallUserUser ==
    /\ Call("user_user", get_user_user_recommendations(df, tested_profile, top_n))
    /\ UNCHANGED algo_name

CallModelBased ==
    \E name \in AlgoNames :
    \E predict \in Predictions(df, tested_profile) :
        /\ Call("model_based",
                get_model_based_recommendations(df, tested_profile, name, top_n, predict))
        /\ algo_name' = name

CallContentBased ==
    /\ Call("content_based", get_content_based_recommendations(df, tested_profile, top_n))
    /\ UNCHANGED algo_name

CallBestRated ==
    /\ Call("best_rated", get_content_based_on_best_rated(df, tested_profile, top_n))
    /\ UNCHANGED algo_name

NextBackend ==
    \/ CallItemUser
    \/ CallUserUser
    \/ CallModelBased
    \/ CallContentBased
    \/ CallBestRated

SpecBackend == InitBackend /\ [][NextBackend]_vars

(***************************************************************************)
(* src/src/sauvegarde.py: the two history sinks.                           *)
(* history.csv holds text records [title, rating, genres, method];         *)
(* history.txt holds the characters written.                               *)
(***************************************************************************)
\* to_csv: a row of the frame as text
ToCsv(rows) ==
    [i \in DOMAIN rows |->
        [title |-> rows[i].title, rating |-> RatingStr(rows[i].rating),
         genres |-> rows[i].genres, method |-> rows[i].method]]

\* read_csv: the text records as rows, the rating parsed as a float
ReadCsv(records) ==
    [i \in DOMAIN records |->
        [title |-> records[i].title, rating |-> ParseRating(records[i].rating),
         genres |-> records[i].genres, method |-> records[i].method]]

\* the profile of one session with its method column
WithMethod(user_profile, method) ==
    [i \in DOMAIN user_profile |->
        [title  |-> user_profile[i].title,
         rating |-> user_profile[i].rating,
         genres |-> user_profile[i].genres,
         method |-> method]]

\* a variant of save_user_profile that writes the new profile alone
save_user_profile_overwrite(user_profile, method, file) ==
    [exists |-> TRUE, rows |-> ToCsv(WithMethod(user_profile, method))]

save_user_profile(user_profile, method, file) ==
    LET profile == WithMethod(user_profile, method)
        updated_df == IF file.exists THEN ReadCsv(file.rows) \o profile ELSE profile
    IN  [exists |-> TRUE, rows |-> ToCsv(updated_df)]

UserMarker   == <<"U+1F464">>
MethodMarker == <<"U+2699", "U+FE0F">>
Delimiter    == Repeat("-", DelimiterLen)

\* the f-strings written for one session
SessionText(user_name, user_profile, method, recommendations) ==
    UserMarker \o <<" ">> \o user_name \o <<LF>>
    \o MethodMarker \o <<" ", "M", "U+00E9", "t", "h", "o", "d", "e", " ", ":", " ">>
    \o method \o <<LF, LF>>
    \o <<"U+1F3AC", " ", "F", "i", "l", "m", "s", " ", "n", "o", "t", "U+00E9", "s",
         " ", ":", LF>>
    \o Concat([i \in DOMAIN user_profile |->
                  <<"-", " ">> \o user_profile[i].title
                  \o <<" ", "-", " ", "N", "o", "t", "e", " ", ":", " ">>
                  \o RatingStr(user_profile[i].rating) \o <<LF>>])
    \o <<LF, "U+2B50", " ", "R", "e", "c", "o", "m", "m", "a", "n", "d", "a", "t",
         "i", "o", "n", "s", " ", ":", LF>>
    \o Concat([i \in DOMAIN recommendations |->
                  <<"-", " ">> \o recommendations[i].title
                  \o <<" ", "-", " ", "S", "c", "o", "r", "e", " ", ":", " ">>
                  \o ScoreStr(recommendations[i].score) \o <<LF>>])
    \o <<LF>> \o Delimiter \o <<LF, LF>>

\* open(filepath, "a"): the file is created when absent
append_user_history_as_text(user_name, user_profile, method, recommendations, file) ==
    [exists |-> TRUE,
     text   |-> file.text \o SessionText(user_name, user_profile, method, recommendations)]

(***************************************************************************)
(* src/app.py                                                              *)
(***************************************************************************)
\* a variant of Duplicate that accepts every choice of films
DuplicateNever(titles) == FALSE

\* len(set(selected_titles)) < 3
Duplicate(titles) == Cardinality(Range(titles)) < 3

\* not user_name
NameMissing(user_name) == user_name = <<>>

\* the first line of lines that starts with marker, or default
FirstLine(lines, marker, default) ==
    IF \E i \in DOMAIN lines : StartsWith(lines[i], marker)
    THEN lines[CHOOSE i \in DOMAIN lines :
                  /\ StartsWith(lines[i], marker)
                  /\ \A j \in 1..(i - 1) : ~StartsWith(lines[j], marker)]
    ELSE default

\* the user and the method shown in the title of a session's expander
ExpanderTitle(session) ==
    LET lines       == SplitLines(Strip(session))
        user_line   == FirstLine(lines, UserMarker,
                                 <<"U", "t", "i", "l", "i", "s", "a", "t", "e", "u", "r",
                                   " ", "i", "n", "c", "o", "n", "n", "u">>)
        method_line == FirstLine(lines, MethodMarker, <<>>)
    IN  [user   |-> Strip(SliceFrom(user_line, UserSlice)),
         method |-> Strip(SliceFrom(method_line, MethodSlice))]

\* the sessions the history sidebar shows for the text of history.txt
ShownSessions(full_text) ==
    LET sessions == Split(Strip(full_text), Delimiter)
        shown    == SelectSeq(sessions, LAMBDA session : Strip(session) # <<>>)
    IN  [i \in DOMAIN shown |-> ExpanderTitle(shown[i])]

Collaborative == "Collaborative"
ContentBased  == "Content-Based"

\* the choices the radio and the two selectboxes offer
MethodChoices ==
    {<<Collaborative, Methods.ItemUser>>, <<Collaborative, Methods.UserUser>>,
     <<Collaborative, SVD>>, <<Collaborative, KNN>>, <<Collaborative, NMF>>,
     <<ContentBased, Methods.Moyenne>>, <<ContentBased, Methods.FilmPrefere>>}

\* the dispatch on main_method and sub_method: the function called and what it did
Recommend(d, profile, main_method, sub_method, predict) ==
    IF main_method = Collaborative
    THEN IF sub_method = Methods.ItemUser
         THEN [function |-> "item_user",
               result   |-> get_item_user_recommendations(d, profile, DefaultTopN)]
         ELSE IF sub_method = Methods.UserUser
         THEN [function |-> "user_user",
               result   |-> get_user_user_recommendations(d, profile, DefaultTopN)]
         ELSE [function |-> "model_based",
               result   |-> get_model_based_recommendations(d, profile, sub_method,
                                                            DefaultTopN, predict)]
    ELSE IF sub_method = Methods.Moyenne
         THEN [function |-> "content_based",
               result   |-> get_content_based_recommendations(d, profile, DefaultTopN)]
         ELSE [function |-> "best_rated",
               result   |-> get_content_based_on_best_rated(d, profile, DefaultTopN)]

\* what a run rendered: the request it ran on (a click on the generate button),
\* st.error / the exception / st.success, the function of backend.py it called,
\* the recommendations shown, the expander titles shown
Page(op, request, status, invoked, recs, sessions) ==
    [op |-> op, request |-> request, status |-> status, invoked |-> invoked,
     recs |-> recs, sessions |-> sessions]

(***************************************************************************)
(* Spec: the script runs of app.py on one dataset.  A run is a click on    *)
(* "Générer mes recommandations" with the widgets holding a request, a     *)
(* click on "Voir l'historique" or a click on "Réinitialiser l'historique".*)
(***************************************************************************)
Request(user_name, titles, rs, choice) ==
    [user_name |-> user_name, titles |-> titles, ratings |-> rs,
     main_method |-> choice[1], sub_method |-> choice[2]]

Al == <<"a", "l">>
Bo == <<"b", "o">>
ABC == << <<"A">>, <<"B">>, <<"C">> >>
AAB == << <<"A">>, <<"A">>, <<"B">> >>

\* the requests tried: every method on a valid request, a second user, the
\* sliders left at 0.0, an empty name, a film chosen twice
Requests ==
    {Request(Al, ABC, <<9, 4, 9>>, c) : c \in MethodChoices}
    \cup {Request(Bo, ABC, <<4, 9, 0>>, <<Collaborative, Methods.ItemUser>>)}
    \cup {Request(Al, ABC, <<0, 0, 0>>, <<ContentBased, Methods.Moyenne>>)}
    \cup {Request(<<>>, ABC, <<9, 4, 9>>, <<Collaborative, SVD>>)}
    \cup {Request(Al, AAB, <<9, 4, 9>>, <<Collaborative, Methods.UserUser>>)}
    \cup {Request(<<>>, AAB, <<9, 4, 9>>, <<ContentBased, Methods.FilmPrefere>>)}

\* in the script runs algo.predict estimates 3.5 or raises
RunPredictions(d, profile) ==
    {p \in Predictions(d, profile) :
        \A t \in DOMAIN p : p[t] \in {7, PredictionImpossible}}

Init ==
    /\ df = DfDense
    /\ selected_titles = <<>>
    /\ ratings = <<>>
    /\ top_n = DefaultTopN
    /\ algo_name = <<>>
    /\ pc = "app"
    /\ result = NoResult
    /\ AppIdle

BackendIdle == UNCHANGED <<df, selected_titles, ratings, top_n, algo_name, pc, result>>

Rejected(req, status) ==
    /\ page' = Page("generate", req, status, "none", <<>>, <<>>)
    /\ UNCHANGED <<history_csv, history_txt, written>>

\* what algo.predict may do in a run: it is called by the model-based function only
PredictionsFor(req) ==
    IF req.main_method = Collaborative
       /\ req.sub_method \notin {Methods.ItemUser, Methods.UserUser}
    THEN RunPredictions(df, Profile(df, req.titles, req.ratings))
    ELSE {<< >>}

\* the run of a click on the generate button (app.py:124-165); a request that
\* passes the two checks is tried while the logs hold fewer than MaxSessions
Generate ==
    \E req \in Requests :
        /\ pc = "app"
        /\ BackendIdle
        /\ IF Duplicate(req.titles) THEN Rejected(req, "duplicate_titles")
           ELSE IF NameMissing(req.user_name) THEN Rejected(req, "name_required")
           ELSE /\ Len(written) < MaxSessions
                /\ \E predict \in PredictionsFor(req) :
                   LET profile == Profile(df, req.titles, req.ratings)
                       called  == Recommend(df, profile, req.main_method,
                                            req.sub_method, predict)
                       recs    == called.result.recs
                   IN  IF called.result.status # "ok"
                       THEN \* the exception ends the run
                            /\ page' = Page("generate", req, called.result.status,
                                            called.function, <<>>, <<>>)
                            /\ UNCHANGED <<history_csv, history_txt, written>>
                       ELSE /\ history_csv' =
                                   save_user_profile(profile, req.sub_method, history_csv)
                            /\ history_txt' =
                                   append_user_history_as_text(req.user_name, profile,
                                       req.sub_method, recs, history_txt)
                            /\ written' =
                                   Append(written, [user_name |-> req.user_name,
                                                    method |-> req.sub_method])
                            /\ page' = Page("generate", req, "ok", called.function, recs,
                                            <<>>)

\* the run of a click on "Voir l'historique" (app.py:170-184)
ViewHistory ==
    /\ pc = "app"
    /\ BackendIdle
    /\ page' = IF history_txt.exists
               THEN Page("view", NoRequest, "ok", "none", <<>>,
                         ShownSessions(history_txt.text))
               ELSE Page("view", NoRequest, "not_found", "none", <<>>, <<>>)
    /\ UNCHANGED <<history_csv, history_txt, written>>

\* the run of a click on "Réinitialiser l'historique" (app.py:186-192)
ResetHistory ==
    /\ pc = "app"
    /\ BackendIdle
    /\ history_txt' = NoText
    /\ history_csv' = NoFile
    /\ written' = <<>>
    /\ page' = Page("reset", NoRequest, "ok", "none", <<>>, <<>>)

Next ==
    \/ Generate
    \/ ViewHistory
    \/ ResetHistory

Spec == Init /\ [][Next]_vars

(***************************************************************************)
(* Properties of the functions of backend.py, checked under SpecBackend.   *)
(***************************************************************************)
Called == pc \in {"item_user", "user_user", "model_based", "content_based", "best_rated"}

\* C1: whatever the strategy, the list returned for a profile of 3 distinct
\* titles of the dataset holds none of the 3 titles of the profile.
C1_ProfileTitlesExcluded ==
    (Called /\ result.status = "ok") =>
        \A i \in DOMAIN result.recs :
            \A k \in DOMAIN selected_titles :
                result.recs[i].title # selected_titles[k]

\* a call left two films outside the profile and returned both
C1_Witness ==
    /\ pc = "item_user"
    /\ result.status = "ok"
    /\ Len(result.recs) = Cardinality(TitlesOf(df)) - 3
    /\ Len(result.recs) = 2

\* C2: whatever the strategy, the list returned is sorted by score, largest
\* first: score(a) >= score(b) for every two neighbours a, b.
C2_SortedDescending ==
    (Called /\ result.status = "ok") =>
        \A i \in 1..(Len(result.recs) - 1) :
            Geq(result.recs[i].score, result.recs[i + 1].score)

\* C3: whatever the strategy, no two rows of the list returned hold the same
\* title, also when the dataset holds several rows for a title.
C3_TitlesUnique ==
    (Called /\ result.status = "ok") =>
        \A i, j \in DOMAIN result.recs :
            result.recs[i].title = result.recs[j].title => i = j

\* a content-based call returned a film that has two rows in the dataset
C3_Witness ==
    /\ pc = "content_based"
    /\ result.status = "ok"
    /\ \E i \in DOMAIN result.recs :
       \E a, b \in DOMAIN df :
           a # b /\ df[a].title = result.recs[i].title /\ df[b].title = result.recs[i].title

\* the raters u whose similarity to the profile is not 0: u rated (not 0) a
\* film the profile rates (not 0)
Neighbours ==
    {u \in UsersOf(df) :
        \E r \in DOMAIN df : \E k \in DOMAIN selected_titles :
            /\ df[r].userId = u /\ df[r].rating # 0
            /\ df[r].title = selected_titles[k] /\ ratings[k] # 0}

\* the normalization weight of title t is 0: no neighbour rated it (not 0)
ZeroWeight(t) ==
    \A r \in DOMAIN df :
        (df[r].title = t /\ df[r].rating # 0) => df[r].userId \notin Neighbours

\* C4: the user-based list holds no title whose normalization weight is 0 and
\* no NaN score, also when fewer than top_n titles have a defined score.
C4_NoUndefinedScore ==
    (pc = "user_user" /\ result.status = "ok") =>
        \A i \in DOMAIN result.recs :
            /\ ~ZeroWeight(result.recs[i].title)
            /\ ~result.recs[i].score.nan

\* C5: with the three ratings at 0 the genre-average call does not fail and
\* returns a list.
C5_ZeroRatingsFallback ==
    (pc = "content_based" /\ \A k \in DOMAIN ratings : ratings[k] = 0) =>
        result.status = "ok"

\* C6: a model-based call with a name other than SVD, KNN, NMF raises the
\* invalid-argument error (ValueError) before fit runs and returns no list.
C6_UnknownAlgorithmFailsBeforeFit ==
    (pc = "model_based" /\ algo_name \notin {SVD, KNN, NMF}) =>
        /\ result.status = "ValueError"
        /\ ~result.fitted
        /\ result.recs = <<>>

\* a model-based call was made with the name "svd"
C6_Witness ==
    /\ pc = "model_based"
    /\ algo_name = <<"s", "v", "d">>
    /\ result.status = "ValueError"

\* the rows of the profile that hold its largest rating
Tied == {i \in DOMAIN ratings : \A j \in DOMAIN ratings : ratings[j] <= ratings[i]}
FirstTied == CHOOSE i \in Tied : \A j \in Tied : i <= j
LastTied == CHOOSE i \in Tied : \A j \in Tied : j <= i
GenreVector(k) ==
    Binarize(Classes(df), GenresList(FirstGenres(df, selected_titles)[k]))

\* C7: when two or three rows of the profile tie for the largest rating, the
\* best-rated call compares the catalogue with the genre vector of the first
\* of them in input order.
C7_FirstOfTiedIsQuery ==
    (pc = "best_rated" /\ Cardinality(Tied) >= 2) =>
        result.query = GenreVector(FirstTied)

\* two rows tie, and the first and the last of them differ in genres
C7_Witness ==
    /\ pc = "best_rated"
    /\ Cardinality(Tied) >= 2
    /\ GenreVector(FirstTied) # GenreVector(LastTied)
    /\ result.query = GenreVector(FirstTied)

(***************************************************************************)
(* Properties of the script runs of app.py, checked under Spec.            *)
(***************************************************************************)
\* C8: from an absent history.txt, after k sessions are appended the history
\* sidebar shows exactly k sessions, the i-th with the user name and the
\* method written by the i-th append.
C8_HistoryRoundTrip ==
    (page.op = "view" /\ page.status = "ok") =>
        /\ Len(page.sessions) = Len(written)
        /\ \A i \in DOMAIN page.sessions :
               i \in DOMAIN written =>
                   /\ page.sessions[i].user = written[i].user_name
                   /\ page.sessions[i].method = written[i].method

\* a request fails the checks of the caller: a film is chosen twice, or the
\* user name is empty
Invalid(request) ==
    \/ \E i, j \in DOMAIN request.titles : i # j /\ request.titles[i] = request.titles[j]
    \/ request.user_name = <<>>

\* C9: a run on a request that fails the checks of the caller calls no
\* function of backend.py, shows no recommendations and leaves history.csv
\* and history.txt as they were.
C9_InvalidRequestAllOrNothing ==
    [][(page'.op = "generate" /\ Invalid(page'.request)) =>
           /\ page'.invoked = "none"
           /\ page'.recs = <<>>
           /\ page'.status \notin {"ok", "none"}
           /\ history_csv' = history_csv
           /\ history_txt' = history_txt]_vars

\* a request with an empty user name was run while the logs held a session
C9_Witness ==
    /\ page.op = "generate"
    /\ page.request.user_name = <<>>
    /\ page.request.titles = ABC
    /\ page.status = "name_required"
    /\ history_txt.exists
    /\ Len(history_csv.rows) = 3

\* the session blocks of history.txt: its lines of 50 dashes, one ends each block
SessionBlocks ==
    LET lines == SplitLines(history_txt.text)
    IN  Cardinality({i \in DOMAIN lines : lines[i] = Delimiter})

\* C10: after any runs (accepted, rejected, ended by an exception of the
\* function called) and resets, history.csv holds exactly 3 rows per session
\* block of history.txt, and the two files exist together.
C10_LogsInStep ==
    /\ history_csv.exists = history_txt.exists
    /\ Len(history_csv.rows) = 3 * SessionBlocks
    /\ SessionBlocks = Len(written)

\* a session is logged and the next run ended in an exception of the function
\* called
C10_Witness ==
    /\ Len(written) = 1
    /\ Len(history_csv.rows) = 3
    /\ SessionBlocks = 1
    /\ page.op = "generate"
    /\ page.status = "ZeroDivisionError"

=============================================================================
